---- MODULE Spec2Model ----
(***************************************************************************)
(* Model of src/src/files.py: the column indexer index(), the group        *)
(* reader groups() and the contrast reader contrasts().                    *)
(*                                                                         *)
(* A string is a sequence of one-character strings, a text file is the     *)
(* sequence of its lines, each line ending in its newline character.       *)
(* One call of one of the three functions is executed step by step; the    *)
(* position of the call is pc, its local variables are the variables of    *)
(* the module.                                                             *)
(***************************************************************************)
EXTENDS Naturals, Integers, Sequences, FiniteSets

VARIABLES
    op,            \* the function that was called: "index", "groups", "contrasts"
    file,          \* content of the file named by the argument file
    delim,         \* argument delim of groups() and contrasts()
    known_groups,  \* argument groups of contrasts()
    index_delim,   \* parameter delim of index()
    required,      \* parameter required of index()
    pc,            \* position of the call
    fh,            \* the file handles that are open
    fpos,          \* number of the line the open handle yields next
    header,        \* index(): normalised cells of the first line
    pending,       \* index(): exception in flight while the finally clause runs
    indices,       \* index(): column name -> column position
    has_header,    \* index(): has_header ; groups(): header
    s_index,       \* groups(): s_index
    g_index,       \* groups(): g_index
    groups,        \* groups(): the dictionary groups
    lineno,        \* groups(): lineno
    errors,        \* contrasts(): errors
    comparsions,   \* contrasts(): comparsions
    line_number,   \* contrasts(): line_number
    stderr,        \* messages written through err() and fatal()
    outcome,       \* "running", "returned", "fatal" or "raised"
    retval         \* the value handed back to the caller, None until then

vars == <<op, file, delim, known_groups, index_delim, required, pc, fh, fpos,
          header, pending, indices, has_header, s_index, g_index, groups,
          lineno, errors, comparsions, line_number, stderr, outcome, retval>>

(***************************************************************************)
(* Python values and string methods                                        *)
(***************************************************************************)
None == "None"

TAB == "\t"
NL == "\n"

\* characters str.strip() removes when called without an argument
Whitespace == {" ", "\t", "\n", "\r"}

UpperCase == <<"A","B","C","D","E","F","G","H","I","J","K","L","M",
               "N","O","P","Q","R","S","T","U","V","W","X","Y","Z">>
LowerCase == <<"a","b","c","d","e","f","g","h","i","j","k","l","m",
               "n","o","p","q","r","s","t","u","v","w","x","y","z">>

Range(s) == {s[i] : i \in DOMAIN s}

LowerChar(ch) ==
    IF \E i \in DOMAIN UpperCase : UpperCase[i] = ch
    THEN LowerCase[CHOOSE i \in DOMAIN UpperCase : UpperCase[i] = ch]
    ELSE ch

\* str.lower()
lower(s) == [i \in 1..Len(s) |-> LowerChar(s[i])]

RECURSIVE LStrip(_, _)
LStrip(s, chars) ==
    IF s # <<>> /\ Head(s) \in chars THEN LStrip(Tail(s), chars) ELSE s

RECURSIVE RStrip(_, _)
RStrip(s, chars) ==
    IF s # <<>> /\ s[Len(s)] \in chars
    THEN RStrip(SubSeq(s, 1, Len(s) - 1), chars)
    ELSE s

\* str.strip(chars)
strip_chars(s, chars) == RStrip(LStrip(s, chars), chars)

\* str.strip()
strip(s) == strip_chars(s, Whitespace)

\* str.split(sep) and re.split('a|b', s) for one-character separators:
\* one cell more than there are separators in s
RECURSIVE SplitOn(_, _)
SplitOn(s, seps) ==
    IF \A i \in DOMAIN s : s[i] \notin seps
    THEN <<s>>
    ELSE LET k == CHOOSE i \in DOMAIN s :
                     /\ s[i] \in seps
                     /\ \A j \in 1..(i - 1) : s[j] \notin seps
         IN  <<SubSeq(s, 1, k - 1)>> \o SplitOn(SubSeq(s, k + 1, Len(s)), seps)

split(s, sep) == SplitOn(s, {sep})

re_split(s) == SplitOn(s, {";", ","})

RECURSIVE join(_, _)
join(sep, list) ==
    IF list = <<>> THEN <<>>
    ELSE IF Len(list) = 1 THEN list[1]
    ELSE list[1] \o <<sep>> \o join(sep, Tail(list))

\* list.index(x), zero-based; the caller handles ValueError
ListIndex(list, x) == (CHOOSE i \in DOMAIN list :
                          list[i] = x /\ \A j \in 1..(i - 1) : list[j] # x) - 1

\* x in list
In(x, list) == \E i \in DOMAIN list : list[i] = x

\* [l.strip() for l in list]
StripEach(list) == [i \in 1..Len(list) |-> strip(list[i])]

\* d[k] = v on a dictionary
Put(d, k, v) == [x \in (DOMAIN d) \cup {k} |-> IF x = k THEN v ELSE d[x]]

EmptyDict == <<>>

(***************************************************************************)
(* clean(s, remove=['"', "'"])                                             *)
(***************************************************************************)
RECURSIVE clean_with(_, _)
clean_with(s, remove) ==
    IF remove = <<>> THEN s
    ELSE clean_with(strip_chars(s, {Head(remove)}), Tail(remove))

clean(s) == clean_with(s, <<"\"", "'">>)

(***************************************************************************)
(* err() and fatal() of utils: err writes a message to the error stream,   *)
(* fatal writes one and ends the process by raising SystemExit.            *)
(***************************************************************************)
Msg(level, kind, line, text) ==
    [level |-> level, kind |-> kind, line |-> line, text |-> text]

err(stream, level, kind, line, text) ==
    Append(stream, Msg(level, kind, line, text))

fatal(stream, kind, text) ==
    [stderr |-> Append(stream, Msg("fatal", kind, 0, text)),
     raises |-> "SystemExit"]

(***************************************************************************)
(* Inputs: the files the three functions are called on                     *)
(***************************************************************************)
MaxLines == 3

Delims == {TAB, ","}

sample == <<"s","a","m","p","l","e">>
group == <<"g","r","o","u","p">>
Sample == <<"S","a","m","p","l","e">>
Group == <<"G","r","o","u","p">>

\* default of the parameter required of index()
DefaultRequired == <<sample, group>>

RequiredPool == {DefaultRequired, <<Sample, Group>>, <<group>>}

\* a line of text: the cells joined by the separator, then the newline
Line(cells, sep) == join(sep, cells) \o <<NL>>

\* rows of a groups file, each a list of raw cells
GroupRows ==
    { <<Sample, Group>>,
      <<sample, group>>,
      <<Group, Sample>>,
      << <<"x">>, <<"A",",","A","B">> >>,
      << <<"y">>, <<"A",";","B">> >>,
      << <<"y">>, <<"A",",">> >>,
      << <<"x">> >>,
      << <<>> >>,
      << <<"x">>, <<>> >>,
      << <<"\"","\"">>, <<"A">> >>,
      << <<"'","y","'">>, <<" ","\"","B","\""," ">> >> }

\* rows of a contrasts file
ContrastRows ==
    { << <<"A">>, <<"B">> >>,
      << <<"B">>, <<"A">> >>,
      << <<"A">>, <<"Z">> >>,
      << <<"Y">>, <<"B">> >>,
      << <<"A">> >>,
      << <<>> >>,
      << <<"A">>, <<>> >>,
      << <<>>, <<"B">> >>,
      << <<"\"","A","\"">>, <<" ","B"," ">> >>,
      << <<"A">>, <<"B">>, <<"C">> >> }

\* rows of the files index() is called on by itself: headers, a header that
\* names one of the two columns only, a quoted header, rows of data
IndexRows ==
    { <<Sample, Group>>,
      <<sample, group>>,
      <<Group, Sample>>,
      << Sample, <<"x">> >>,
      << <<"\"","S","a","m","p","l","e","\"">>, <<" ","g","r","o","u","p"," ">> >>,
      << <<"x">>, <<"A",",","A","B">> >>,
      << <<"x">> >>,
      << <<>> >> }

KnownPool == { {<<"A">>, <<"B">>, <<"C">>}, {<<"A">>, <<"B">>, <<"Z">>} }

\* the files of at most MaxLines lines written with one separator
FilesOf(rows) ==
    UNION { UNION { [1..n -> {Line(r, sep) : r \in rows}] : n \in 0..MaxLines }
            : sep \in Delims }

(***************************************************************************)
(* Initial states: one call, its arguments chosen, nothing executed yet    *)
(***************************************************************************)
Locals ==
    /\ fh = {}
    /\ fpos = 1
    /\ header = <<>>
    /\ pending = None
    /\ indices = EmptyDict
    /\ has_header = TRUE
    /\ s_index = 0
    /\ g_index = 0
    /\ groups = EmptyDict
    /\ lineno = 0
    /\ errors = <<>>
    /\ comparsions = <<>>
    /\ line_number = 0
    /\ stderr = <<>>
    /\ outcome = "running"
    /\ retval = None

InitIndex ==
    /\ op = "index"
    /\ file \in FilesOf(IndexRows)
    /\ delim = None
    /\ known_groups = {}
    /\ index_delim \in Delims
    /\ required \in RequiredPool
    /\ pc = "index:open"
    /\ Locals

InitGroups ==
    /\ op = "groups"
    /\ file \in FilesOf(GroupRows)
    /\ delim \in Delims
    /\ known_groups = {}
    /\ index_delim = None
    /\ required = <<>>
    /\ pc = "groups:index"
    /\ Locals

InitContrasts ==
    /\ op = "contrasts"
    /\ file \in FilesOf(ContrastRows)
    /\ delim \in Delims
    /\ known_groups \in KnownPool
    /\ index_delim = None
    /\ required = <<>>
    /\ pc = "contrasts:open"
    /\ Locals

Init == InitIndex \/ InitGroups \/ InitContrasts

(***************************************************************************)
(* index(file, delim, required)                                            *)
(***************************************************************************)
\* fh = open(file, 'r')
index_open ==
    /\ pc = "index:open"
    /\ fh' = fh \cup {"index"}
    /\ fpos' = 1
    /\ indices' = EmptyDict
    /\ has_header' = TRUE
    /\ pc' = "index:next"
    /\ UNCHANGED <<op, file, delim, known_groups, index_delim, required,
                   header, pending, s_index, g_index, groups, lineno, errors,
                   comparsions, line_number, stderr, outcome, retval>>

\* the cells of the first line as index() normalises them
HeaderCells(line, sep) ==
    LET cols == split(strip(line), sep)
    IN  [i \in 1..Len(cols) |-> clean(strip(lower(cols[i])))]

\* index_next without the except clause's fatal(): the empty file is
\* taken for a file with an empty first line
index_next_NoFatal ==
    /\ pc = "index:next"
    /\ header' = IF fpos > Len(file) THEN <<>>
                 ELSE HeaderCells(file[fpos], index_delim)
    /\ fpos' = IF fpos > Len(file) THEN fpos ELSE fpos + 1
    /\ pc' = "index:finally"
    /\ UNCHANGED <<op, file, delim, known_groups, index_delim, required, fh,
                   indices, has_header, s_index, g_index, groups, lineno,
                   errors, comparsions, line_number, outcome, retval, stderr,
                   pending>>

\* the try block around next(fh): the header, or StopIteration on a file
\* without lines, which is answered by err() and fatal()
index_next ==
    /\ pc = "index:next"
    /\ IF fpos > Len(file)
       THEN LET e == err(stderr, "error", "empty file", 0, <<>>)
                f == fatal(e, "empty file", <<>>)
            IN  /\ stderr' = f.stderr
                /\ pending' = f.raises
                /\ UNCHANGED <<header, fpos>>
       ELSE /\ header' = HeaderCells(file[fpos], index_delim)
            /\ fpos' = fpos + 1
            /\ UNCHANGED <<stderr, pending>>
    /\ pc' = "index:finally"
    /\ UNCHANGED <<op, file, delim, known_groups, index_delim, required, fh,
                   indices, has_header, s_index, g_index, groups, lineno,
                   errors, comparsions, line_number, outcome, retval>>

\* index_finally without fh.close()
index_finally_NoClose ==
    /\ pc = "index:finally"
    /\ IF pending = "SystemExit"
       THEN /\ outcome' = "fatal"
            /\ pc' = "done"
       ELSE /\ pc' = "index:parse"
            /\ UNCHANGED outcome
    /\ UNCHANGED <<op, file, delim, known_groups, index_delim, required, fpos,
                   header, pending, indices, has_header, s_index, g_index,
                   groups, lineno, errors, comparsions, line_number, stderr,
                   retval, fh>>

\* finally: fh.close(); an exception in flight then leaves the function
index_finally ==
    /\ pc = "index:finally"
    /\ fh' = fh \ {"index"}
    /\ IF pending = "SystemExit"
       THEN /\ outcome' = "fatal"
            /\ pc' = "done"
       ELSE /\ pc' = "index:parse"
            /\ UNCHANGED outcome
    /\ UNCHANGED <<op, file, delim, known_groups, index_delim, required, fpos,
                   header, pending, indices, has_header, s_index, g_index,
                   groups, lineno, errors, comparsions, line_number, stderr,
                   retval>>

\* the loop of the second try block: the entries made before the first
\* required name that is not in the header, and whether all were found
RECURSIVE LookupColumns(_, _, _)
LookupColumns(req, hdr, acc) ==
    IF req = <<>> THEN [indices |-> acc, found |-> TRUE]
    ELSE LET col == lower(Head(req))
         IN  IF In(col, hdr)
             THEN LookupColumns(Tail(req), hdr, Put(acc, col, ListIndex(hdr, col)))
             ELSE [indices |-> acc, found |-> FALSE]

\* the loop of the except block: indices[required[i]] = i
RECURSIVE DefaultColumns(_, _, _)
DefaultColumns(req, i, acc) ==
    IF i >= Len(req) THEN acc
    ELSE DefaultColumns(req, i + 1, Put(acc, req[i + 1], i))

\* indices and has_header as index() returns them
ParseHeader(req, hdr) ==
    LET looked == LookupColumns(req, hdr, EmptyDict)
    IN  IF looked.found
        THEN [indices |-> looked.indices, has_header |-> TRUE]
        ELSE [indices |-> DefaultColumns(req, 0, looked.indices),
              has_header |-> FALSE]

\* the second try block and the return
index_parse ==
    /\ pc = "index:parse"
    /\ LET parsed == ParseHeader(required, header)
       IN  /\ indices' = parsed.indices
           /\ has_header' = parsed.has_header
           /\ stderr' = IF parsed.has_header THEN stderr
                        ELSE err(err(stderr, "warning", "missing column names", 0, <<>>),
                                 "warning", "assuming columns", 0, <<>>)
           /\ IF op = "index"
              THEN /\ outcome' = "returned"
                   /\ retval' = <<parsed.indices, parsed.has_header>>
                   /\ pc' = "done"
              ELSE /\ pc' = "groups:indices"
                   /\ UNCHANGED <<outcome, retval>>
    /\ UNCHANGED <<op, file, delim, known_groups, index_delim, required, fh,
                   fpos, header, pending, s_index, g_index, groups, lineno,
                   errors, comparsions, line_number>>

NextIndex == index_open \/ index_next \/ index_finally \/ index_parse

SpecIndex == InitIndex /\ [][NextIndex]_vars

(***************************************************************************)
(* groups(file, delim)                                                     *)
(***************************************************************************)
\* indices, header = index(file): delim and required take their defaults
groups_index ==
    /\ pc = "groups:index"
    /\ index_delim' = TAB
    /\ required' = DefaultRequired
    /\ pc' = "index:open"
    /\ UNCHANGED <<op, file, delim, known_groups, fh, fpos, header, pending,
                   indices, has_header, s_index, g_index, groups, lineno,
                   errors, comparsions, line_number, stderr, outcome, retval>>

\* s_index, g_index, groups = {}, lineno = 0 and the open() of the with
\* statement; a missing key of indices is a KeyError nobody catches
groups_open ==
    /\ pc = "groups:indices"
    /\ IF sample \in DOMAIN indices /\ group \in DOMAIN indices
       THEN /\ s_index' = indices[sample]
            /\ g_index' = indices[group]
            /\ groups' = EmptyDict
            /\ lineno' = 0
            /\ fh' = fh \cup {"groups"}
            /\ fpos' = 1
            /\ pc' = "groups:header"
            /\ UNCHANGED outcome
       ELSE /\ outcome' = "raised"
            /\ pc' = "done"
            /\ UNCHANGED <<s_index, g_index, groups, lineno, fh, fpos>>
    /\ UNCHANGED <<op, file, delim, known_groups, index_delim, required,
                   header, pending, indices, has_header, errors, comparsions,
                   line_number, stderr, retval>>

\* groups_header skipping the first line whatever index() reported
groups_header_AlwaysSkip ==
    /\ pc = "groups:header"
    /\ lineno' = lineno + 1
    /\ fpos' = fpos + 1
    /\ pc' = "groups:loop"
    /\ UNCHANGED <<op, file, delim, known_groups, index_delim, required,
                   header, pending, indices, has_header, s_index, g_index,
                   groups, errors, comparsions, line_number, stderr, retval,
                   outcome, fh>>

\* if header: lineno += 1; _ = next(fh)
groups_header ==
    /\ pc = "groups:header"
    /\ IF has_header
       THEN IF fpos > Len(file)
            THEN /\ outcome' = "raised"
                 /\ fh' = fh \ {"groups"}
                 /\ pc' = "done"
                 /\ lineno' = lineno + 1
                 /\ UNCHANGED fpos
            ELSE /\ lineno' = lineno + 1
                 /\ fpos' = fpos + 1
                 /\ pc' = "groups:loop"
                 /\ UNCHANGED <<outcome, fh>>
       ELSE /\ pc' = "groups:loop"
            /\ UNCHANGED <<outcome, fh, lineno, fpos>>
    /\ UNCHANGED <<op, file, delim, known_groups, index_delim, required,
                   header, pending, indices, has_header, s_index, g_index,
                   groups, errors, comparsions, line_number, stderr, retval>>

\* linelist = [l.strip() for l in line.split(delim)]
GroupsLineList(line, sep) == StripEach(split(line, sep))

\* multiple_groups: the group cell split on ; or , and each token cleaned
MultipleGroups(cell) ==
    LET multiple_groups == re_split(cell)
    IN  [i \in 1..Len(multiple_groups) |-> clean(strip(multiple_groups[i]))]

\* AddSample without the test sample not in groups[g]
AddSample_NoMembershipTest(dict, g, s) ==
    LET d1 == IF g \notin DOMAIN dict THEN Put(dict, g, <<>>) ELSE dict
    IN  Put(d1, g, Append(d1[g], s))

\* the body of the loop over multiple_groups for one g
AddSample(dict, g, s) ==
    LET d1 == IF g \notin DOMAIN dict THEN Put(dict, g, <<>>) ELSE dict
    IN  IF ~In(s, d1[g]) THEN Put(d1, g, Append(d1[g], s)) ELSE d1

\* for g in multiple_groups
RECURSIVE AddSamples(_, _, _)
AddSamples(dict, gs, s) ==
    IF gs = <<>> THEN dict
    ELSE AddSamples(AddSample(dict, Head(gs), s), Tail(gs), s)

\* what the try block and the checks after it make of one line:
\* "IndexError", "empty" or "ok" with the cleaned sample and the raw group cell
GroupsCells(linelist, si, gi) ==
    IF si >= Len(linelist) \/ gi >= Len(linelist)
    THEN [kind |-> "IndexError", sample |-> <<>>, group |-> <<>>]
    ELSE LET s == clean(linelist[si + 1])
             g == linelist[gi + 1]
         IN  IF s = <<>> \/ g = <<>>
             THEN [kind |-> "empty", sample |-> s, group |-> g]
             ELSE [kind |-> "ok", sample |-> s, group |-> g]

\* one pass of for line in fh
groups_line ==
    /\ pc = "groups:loop"
    /\ fpos <= Len(file)
    /\ fpos' = fpos + 1
    /\ lineno' = lineno + 1
    /\ LET linelist == GroupsLineList(file[fpos], delim)
           cells == GroupsCells(linelist, s_index, g_index)
           filtered == SelectSeq(linelist, LAMBDA item : item # <<>>)
       IN  IF cells.kind = "IndexError"
           THEN /\ stderr' = IF filtered # <<>>
                             THEN err(stderr, "warning", "column missing",
                                      lineno + 1, linelist)
                             ELSE stderr
                /\ UNCHANGED groups
           ELSE IF cells.kind = "empty"
           THEN /\ stderr' = err(stderr, "warning", "information missing",
                                 lineno + 1, linelist)
                /\ UNCHANGED groups
           ELSE /\ groups' = AddSamples(groups, MultipleGroups(cells.group),
                                        cells.sample)
                /\ UNCHANGED stderr
    /\ UNCHANGED <<op, file, delim, known_groups, index_delim, required, pc,
                   fh, header, pending, indices, has_header, s_index, g_index,
                   errors, comparsions, line_number, outcome, retval>>

\* the file is exhausted: the with statement closes it, return groups
groups_return ==
    /\ pc = "groups:loop"
    /\ fpos > Len(file)
    /\ fh' = fh \ {"groups"}
    /\ outcome' = "returned"
    /\ retval' = groups
    /\ pc' = "done"
    /\ UNCHANGED <<op, file, delim, known_groups, index_delim, required, fpos,
                   header, pending, indices, has_header, s_index, g_index,
                   groups, lineno, errors, comparsions, line_number, stderr>>

NextGroups ==
    \/ groups_index \/ NextIndex
    \/ groups_open \/ groups_header \/ groups_line \/ groups_return

SpecGroups == InitGroups /\ [][NextGroups]_vars

(***************************************************************************)
(* contrasts(file, groups, delim)                                          *)
(***************************************************************************)
\* errors = [], comparsions = [], line_number = 0, with open(file) as fh
contrasts_open ==
    /\ pc = "contrasts:open"
    /\ errors' = <<>>
    /\ comparsions' = <<>>
    /\ line_number' = 0
    /\ fh' = fh \cup {"contrasts"}
    /\ fpos' = 1
    /\ pc' = "contrasts:loop"
    /\ UNCHANGED <<op, file, delim, known_groups, index_delim, required,
                   header, pending, indices, has_header, s_index, g_index,
                   groups, lineno, stderr, outcome, retval>>

\* linelist = [clean(l.strip()) for l in line.split(delim)]
ContrastsLineList(line, sep) ==
    LET cols == split(line, sep)
    IN  [i \in 1..Len(cols) |-> clean(strip(cols[i]))]

\* what the try block makes of one line: g1 = linelist[0] always exists,
\* g2 = linelist[1] raises IndexError before the test for blank values
ContrastsCells(linelist) ==
    IF Len(linelist) < 2
    THEN [kind |-> "IndexError", g1 |-> linelist[1], g2 |-> <<>>]
    ELSE IF linelist[1] = <<>> \/ linelist[2] = <<>>
    THEN [kind |-> "blank", g1 |-> linelist[1], g2 |-> linelist[2]]
    ELSE [kind |-> "ok", g1 |-> linelist[1], g2 |-> linelist[2]]

\* CollectErrors looking at the left group only
CollectErrors_FirstOnly(errs, gs, known) ==
    IF gs # <<>> /\ Head(gs) \notin known THEN Append(errs, Head(gs)) ELSE errs

\* for g in [g1, g2]: if g not in groups: errors.append(g)
RECURSIVE CollectErrors(_, _, _)
CollectErrors(errs, gs, known) ==
    IF gs = <<>> THEN errs
    ELSE CollectErrors(IF Head(gs) \notin known THEN Append(errs, Head(gs)) ELSE errs,
                       Tail(gs), known)

\* AddComparison taking a pair and its reverse for the same comparison
AddComparison_Unordered(list, g1, g2) ==
    IF ~In(<<g1, g2>>, list) /\ ~In(<<g2, g1>>, list)
    THEN Append(list, <<g1, g2>>)
    ELSE list

\* if [g1, g2] not in comparsions: comparsions.append([g1, g2])
AddComparison(list, g1, g2) ==
    IF ~In(<<g1, g2>>, list) THEN Append(list, <<g1, g2>>) ELSE list

\* one pass of for line in fh
contrasts_line ==
    /\ pc = "contrasts:loop"
    /\ fpos <= Len(file)
    /\ fpos' = fpos + 1
    /\ line_number' = line_number + 1
    /\ LET linelist == ContrastsLineList(file[fpos], delim)
           cells == ContrastsCells(linelist)
       IN  IF cells.kind = "IndexError"
           THEN /\ stderr' = err(err(stderr, "warning", "missing group",
                                     line_number + 1, strip(file[fpos])),
                                 "warning", "skipping line", line_number + 1, <<>>)
                /\ UNCHANGED <<errors, comparsions>>
           ELSE IF cells.kind = "blank"
           THEN UNCHANGED <<stderr, errors, comparsions>>
           ELSE /\ errors' = CollectErrors(errors, <<cells.g1, cells.g2>>, known_groups)
                /\ comparsions' = AddComparison(comparsions, cells.g1, cells.g2)
                /\ UNCHANGED stderr
    /\ UNCHANGED <<op, file, delim, known_groups, index_delim, required, pc,
                   fh, header, pending, indices, has_header, s_index, g_index,
                   groups, lineno, outcome, retval>>

\* the file is exhausted: the with statement closes it
contrasts_close ==
    /\ pc = "contrasts:loop"
    /\ fpos > Len(file)
    /\ fh' = fh \ {"contrasts"}
    /\ pc' = "contrasts:errors"
    /\ UNCHANGED <<op, file, delim, known_groups, index_delim, required, fpos,
                   header, pending, indices, has_header, s_index, g_index,
                   groups, lineno, errors, comparsions, line_number, stderr,
                   outcome, retval>>

\* if errors: err(...), fatal(','.join(errors)); otherwise return comparsions
contrasts_return ==
    /\ pc = "contrasts:errors"
    /\ IF errors # <<>>
       THEN LET e == err(stderr, "error", "undefined groups", 0, <<>>)
                f == fatal(e, "undefined groups", join(",", errors))
            IN  /\ stderr' = f.stderr
                /\ outcome' = "fatal"
                /\ UNCHANGED retval
       ELSE /\ outcome' = "returned"
            /\ retval' = comparsions
            /\ UNCHANGED stderr
    /\ pc' = "done"
    /\ UNCHANGED <<op, file, delim, known_groups, index_delim, required, fh,
                   fpos, header, pending, indices, has_header, s_index,
                   g_index, groups, lineno, errors, comparsions, line_number>>

NextContrasts ==
    contrasts_open \/ contrasts_line \/ contrasts_close \/ contrasts_return

SpecContrasts == InitContrasts /\ [][NextContrasts]_vars

(***************************************************************************)
(* Any call of any of the three functions                                  *)
(***************************************************************************)
Next == NextGroups \/ NextContrasts

Spec == Init /\ [][Next]_vars

(***************************************************************************)
(* Vocabulary of the properties                                            *)
(***************************************************************************)
Returned == pc = "done" /\ outcome = "returned"

NoDuplicates(list) ==
    \A i, j \in DOMAIN list : i # j => list[i] # list[j]

\* the cells of line i of a groups file under the delimiter of the call
GCells(i) ==
    LET parts == split(file[i], delim)
    IN  [k \in DOMAIN parts |-> strip(parts[k])]

\* line i is a data row with columns si and gi: both cells exist, the
\* sample cell is non-empty once cleaned, the group cell is non-empty
GDataRow(i, si, gi) ==
    /\ Len(GCells(i)) > si
    /\ Len(GCells(i)) > gi
    /\ clean(GCells(i)[si + 1]) # <<>>
    /\ GCells(i)[gi + 1] # <<>>

GSample(i, si) == clean(GCells(i)[si + 1])

\* the cleaned comma- or semicolon-separated tokens of the group cell
GTokens(i, gi) ==
    LET parts == SplitOn(GCells(i)[gi + 1], {",", ";"})
    IN  {clean(strip(parts[k])) : k \in DOMAIN parts}

\* row i (from row first on) lists sample s under group g
GLists(i, s, g, first, si, gi) ==
    /\ i \in first..Len(file)
    /\ GDataRow(i, si, gi)
    /\ GSample(i, si) = s
    /\ g \in GTokens(i, gi)

GListed(s, g, first, si, gi) ==
    \E i \in first..Len(file) : GLists(i, s, g, first, si, gi)

GFirstRow(s, g, first, si, gi) ==
    CHOOSE i \in first..Len(file) :
        /\ GLists(i, s, g, first, si, gi)
        /\ \A j \in first..(i - 1) : ~GLists(j, s, g, first, si, gi)

GAllSamples(first, si, gi) ==
    {GSample(i, si) : i \in {j \in first..Len(file) : GDataRow(j, si, gi)}}

GAllTokens(first, si, gi) ==
    UNION {GTokens(i, gi) : i \in {j \in first..Len(file) : GDataRow(j, si, gi)}}

\* the mapping m is the one the rows from row first on describe: a sample
\* is under a group exactly when a row lists it there, once, and the
\* samples of a group stand in the order of their first rows
GDescribes(m, first, si, gi) ==
    /\ DOMAIN m = GAllTokens(first, si, gi)
    /\ \A g \in DOMAIN m :
        /\ Range(m[g]) = {s \in GAllSamples(first, si, gi) :
                              GListed(s, g, first, si, gi)}
        /\ NoDuplicates(m[g])
        /\ \A i, j \in DOMAIN m[g] :
               i < j => GFirstRow(m[g][i], g, first, si, gi)
                          < GFirstRow(m[g][j], g, first, si, gi)

HeaderLine == Line(<<Sample, Group>>, TAB)

(***************************************************************************)
(* Properties of groups()                                                  *)
(***************************************************************************)
\* C1: on a file whose first line is Sample<TAB>Group, groups() returns the
\* mapping in which sample s is under group g exactly when a data row with
\* non-empty sample cell s and non-empty group cell has g among its comma-
\* or semicolon-separated tokens; every list is in the order of the first
\* rows and holds each sample once.
C1_GroupsMapping ==
    (Returned /\ op = "groups" /\ file # <<>> /\ file[1] = HeaderLine)
        => GDescribes(retval, 2, 0, 1)

\* a header, a row with two group tokens and a second sample in one of them
C1_Witness ==
    /\ Returned /\ op = "groups" /\ file # <<>> /\ file[1] = HeaderLine
    /\ \E i \in 2..Len(file) : GDataRow(i, 0, 1) /\ Cardinality(GTokens(i, 1)) = 2
    /\ \E g \in DOMAIN retval : Len(retval[g]) = 2

\* the first line of a groups file holds neither header token, however
\* it is split
NoHeaderTokens(line) ==
    \A sep \in Delims \cup {delim} :
        \A col \in Range(HeaderCells(line, sep)) : col \notin {sample, group}

\* C3: groups() leaves the first line out only when index() reported a
\* header; a first line without sample/group tokens makes the file
\* header-absent and is itself read as a data row, sample in column 0 and
\* group in column 1.
C3_HeaderSkip ==
    (Returned /\ op = "groups") =>
        /\ GDescribes(retval, IF has_header THEN 2 ELSE 1, s_index, g_index)
        /\ NoHeaderTokens(file[1]) =>
               /\ ~has_header
               /\ GDescribes(retval, 1, 0, 1)

\* a first line without header tokens that is a data row and is in the result
C3_Witness ==
    /\ Returned /\ op = "groups"
    /\ NoHeaderTokens(file[1])
    /\ GDataRow(1, 0, 1)
    /\ \E g \in DOMAIN retval : retval[g][1] = GSample(1, 0)
    /\ Len(file) > 1

\* C5: groups() never raises; it ends fatally exactly on the file without
\* lines and returns nothing then; on every other file it reads all lines,
\* skips the malformed ones and returns a mapping.
C5_GroupsTotal ==
    op = "groups" =>
        /\ outcome # "raised"
        /\ outcome = "fatal" => file = <<>> /\ retval = None
        /\ pc = "done" =>
              IF file = <<>>
              THEN outcome = "fatal" /\ retval = None
              ELSE /\ outcome = "returned"
                   /\ retval = groups
                   /\ lineno = Len(file)

\* a call that returned although lines lacked a column and lacked a value
C5_Witness ==
    /\ Returned /\ op = "groups"
    /\ \E i \in DOMAIN stderr : stderr[i].kind = "column missing"
    /\ \E i \in DOMAIN stderr : stderr[i].kind = "information missing"

\* C9: groups(file, d) on a file whose first line is sample<d>group: the
\* header is recognised, the line is skipped and is no entry of the result.
C9_DelimiterHonoured ==
    (Returned /\ op = "groups" /\ file # <<>>
        /\ file[1] = Line(<<sample, group>>, delim)
        /\ \A i \in 2..Len(file) : file[i] # file[1])
    => /\ has_header
       /\ group \notin DOMAIN retval

\* C10: no key of the dictionary groups is the empty string.
C10_NoEmptyGroupName ==
    op = "groups" => \A g \in DOMAIN groups : g # <<>>

(***************************************************************************)
(* Properties of index()                                                   *)
(***************************************************************************)
\* C7: the index map index() returns has exactly the lowercased required
\* names as keys, and every value is a column of the first line.
C7_IndexMap ==
    (Returned /\ op = "index") =>
        /\ DOMAIN indices = {lower(required[i]) : i \in DOMAIN required}
        /\ \A k \in DOMAIN indices :
               /\ indices[k] \in Nat
               /\ indices[k] < Len(split(strip(file[1]), index_delim))

(***************************************************************************)
(* Properties of contrasts()                                               *)
(***************************************************************************)
CCells(i) ==
    LET parts == split(file[i], delim)
    IN  [k \in DOMAIN parts |-> clean(strip(parts[k]))]

\* line i has a left and a right value, neither blank
CAccepted(i) ==
    /\ Len(CCells(i)) >= 2
    /\ CCells(i)[1] # <<>>
    /\ CCells(i)[2] # <<>>

CPair(i) == <<CCells(i)[1], CCells(i)[2]>>

CUndefined(i) ==
    {g \in {CCells(i)[1], CCells(i)[2]} : g \notin known_groups}

CAcceptedLines == {i \in DOMAIN file : CAccepted(i)}

CFirstLine(pair) ==
    CHOOSE i \in CAcceptedLines :
        CPair(i) = pair /\ \A j \in CAcceptedLines : j < i => CPair(j) # pair

\* C2: a line of contrasts() with a left and a right value, one of them a
\* group outside known_groups, makes the call end fatally without a return
\* value, whatever the other lines are; the fatal error comes after the
\* last line was read and its message is the comma-joined list of the
\* recorded names, which holds every undefined name of every such line.
C2_UndefinedGroupsFatal ==
    op = "contrasts" =>
        /\ (pc = "done" /\ \E i \in CAcceptedLines : CUndefined(i) # {})
               => outcome = "fatal" /\ retval = None
        /\ outcome = "fatal" =>
               /\ fpos = Len(file) + 1
               /\ line_number = Len(file)
               /\ retval = None
               /\ stderr[Len(stderr)].level = "fatal"
               /\ stderr[Len(stderr)].text = join(",", errors)
               /\ \A i \in CAcceptedLines : CUndefined(i) \subseteq Range(errors)

\* an undefined group on the first line, defined groups after it
C2_Witness ==
    /\ op = "contrasts" /\ outcome = "fatal"
    /\ Len(file) = MaxLines
    /\ CAccepted(1) /\ CUndefined(1) # {}
    /\ \A i \in 2..Len(file) : CAccepted(i) /\ CUndefined(i) = {}

\* C4: when all groups are known, contrasts() returns the ordered pairs of
\* the accepted lines, each once, in the order of their first lines; (A,B)
\* and (B,A) are two pairs.
C4_Comparisons ==
    (Returned /\ op = "contrasts") =>
        /\ Range(retval) = {CPair(i) : i \in CAcceptedLines}
        /\ NoDuplicates(retval)
        /\ \A i, j \in DOMAIN retval :
               i < j => CFirstLine(retval[i]) < CFirstLine(retval[j])

\* a pair, its reverse and the pair again
C4_Witness ==
    /\ Returned /\ op = "contrasts"
    /\ Len(retval) = 2
    /\ retval[2] = <<retval[1][2], retval[1][1]>>
    /\ Cardinality(CAcceptedLines) = 3

\* C6: contrasts() writes no warning for a line whose left or right value
\* is blank; it warns only about lines of fewer than two cells.
C6_BlankSilent ==
    op = "contrasts" =>
        \A m \in DOMAIN stderr :
            stderr[m].level = "warning" =>
                /\ Len(CCells(stderr[m].line)) < 2
                /\ CCells(stderr[m].line)[1] # <<>>

(***************************************************************************)
(* File handles                                                            *)
(***************************************************************************)
\* C8: a call has at most one file handle open at a time and none when it
\* has ended, by return or by fatal error.
C8_HandleScope ==
    /\ Cardinality(fh) <= 1
    /\ pc = "done" => fh = {}

\* groups() reading its file after index() has closed its own handle
C8_Witness ==
    /\ op = "groups"
    /\ pc = "groups:loop"
    /\ fh = {"groups"}
    /\ fpos > 1

====
